---- MODULE Spec2Model ----
(***************************************************************************)
(* nprt: propagation check of a nixpkgs pull request across channels.      *)
(*                                                                         *)
(* The model follows internal/core (CheckPR, checkChannel,                 *)
(* SortChannelResults), internal/github (GetPullRequest, GetIssue,         *)
(* disambiguateNotFound, GetRelatedPRs, doRequestWithAccept) and the       *)
(* goroutine fan-out of CheckPR.  Go strings that are compared with "<"    *)
(* (channel names) are tuples of byte values; all other strings are TLA+   *)
(* strings.                                                                *)
(***************************************************************************)
EXTENDS Integers, Sequences, FiniteSets, TLC

VARIABLES
    prNumber,        \* CheckPR argument prNumber
    channels,        \* CheckPR argument channels ([]config.Channel)
    timelinePages,   \* Client.TimelinePages
    ctxCancelled,    \* ctx.Done() has fired
    pc,              \* position of the CheckPR invocation
    pr,              \* the *PullRequest returned by GetPullRequest
    issue,           \* the *Issue returned by GetIssue
    page,            \* loop variable of GetRelatedPRs
    related,         \* GetRelatedPRs: related []RelatedPR
    seen,            \* GetRelatedPRs: seen map[int]bool (set of keys)
    hostCompare,     \* the host's answer to the compare call of channel i
    spawned,         \* number of "go func()" statements executed by the loop
    task,            \* position of the goroutine of channel i
    results,         \* results []ChannelResult of CheckPR
    wg,              \* sync.WaitGroup counter
    requests,        \* the pull, issue and timeline calls issued so far, in order
    compareCalls,    \* number of compare calls issued for channel i
    compareOut,      \* what the compare call of channel i returned
    cancelledInFlight, \* ctx fired while a compare call was in flight
    callArg,         \* argument of a function called on its own
    callRet,         \* its return value
    retStatus,       \* first return value of CheckPR
    retErr           \* second return value of CheckPR

vars == <<prNumber, channels, timelinePages, ctxCancelled, pc, pr, issue, page,
          related, seen, hostCompare, spawned, task, results, wg, requests,
          compareCalls, compareOut, cancelledInFlight, callArg, callRet,
          retStatus, retErr>>

-----------------------------------------------------------------------------
(* Bounds of the model *)

MaxChannels == 2
MaxLag == 1

-----------------------------------------------------------------------------
(* Constants of the program *)

StatusPresent == "present"
StatusNotPresent == "not_present"
StatusUnknown == "unknown"

PRStateDraft == "draft"
PRStateOpen == "open"
PRStateMerged == "merged"
PRStateClosed == "closed"

StateMerged == "merged"

DefaultTimelinePages == 3

StatusNotFound == 404
StatusForbidden == 403

\* core.go:100 logs pr.MergeCommitSHA[:12]
CommitLogLen == 12

Nil == [type |-> "nil"]

-----------------------------------------------------------------------------
(* Go string comparison a < b on byte tuples *)

RECURSIVE StringLess(_, _)
StringLess(a, b) ==
    IF b = <<>> THEN FALSE
    ELSE IF a = <<>> THEN TRUE
    ELSE IF Head(a) # Head(b) THEN Head(a) < Head(b)
    ELSE StringLess(Tail(a), Tail(b))

-----------------------------------------------------------------------------
(* Errors *)

APIError(code, msg) == [type |-> "APIError", StatusCode |-> code, Message |-> msg]

Errorf(msg) == [type |-> "error", msg |-> msg]

NotFoundError(n) == [type |-> "NotFoundError", Number |-> n]

\* the error without the issue's state
NotPullRequestError_NoState(n, title, state, url, rel) ==
    [type |-> "NotPullRequestError", Number |-> n, Title |-> title,
     State |-> "", URL |-> url, RelatedPRs |-> rel]

NotPullRequestError(n, title, state, url, rel) ==
    [type |-> "NotPullRequestError", Number |-> n, Title |-> title,
     State |-> state, URL |-> url, RelatedPRs |-> rel]

\* err.Error()
ErrorString(e) ==
    CASE e.type = "APIError" ->
            "GitHub API error (status " \o ToString(e.StatusCode) \o "): " \o e.Message
      [] e.type = "NotFoundError" ->
            "no PR or issue #" \o ToString(e.Number) \o " exists in NixOS/nixpkgs"
      [] e.type = "NotPullRequestError" ->
            "#" \o ToString(e.Number) \o " is an issue, not a pull request"
      [] OTHER -> e.msg

-----------------------------------------------------------------------------
(* The HTTP transport: doRequestWithAccept *)

\* What the host (or the network) does with one request.
HTTPResponse(transport, code, rateRemaining0, body) ==
    [transport |-> transport, StatusCode |-> code,
     RateLimitRemaining0 |-> rateRemaining0, body |-> body]

NetworkFail == HTTPResponse("fail", 0, FALSE, Nil)
RateLimited == HTTPResponse("ok", 403, TRUE, Nil)
AuthFailed == HTTPResponse("ok", 403, FALSE, Nil)
NotFound404 == HTTPResponse("ok", 404, FALSE, [type |-> "json", Message |-> "Not Found"])
ServerError == HTTPResponse("ok", 500, FALSE, [type |-> "garbage"])
OK200(body) == HTTPResponse("ok", 200, FALSE, body)
Garbage200 == OK200([type |-> "garbage"])

extractAPIMessage(body) ==
    IF body.type = "json" /\ body.Message # "" THEN body.Message ELSE "<raw body>"

\* Returns [body, err]; a cancelled context makes HTTPClient.Do fail.
doRequestWithAccept(cancelled, resp) ==
    IF cancelled
    THEN [body |-> Nil, err |-> Errorf("network error talking to GitHub: context canceled")]
    ELSE IF resp.transport = "fail"
    THEN [body |-> Nil, err |-> Errorf("network error talking to GitHub: connection refused")]
    ELSE IF resp.StatusCode = StatusForbidden
    THEN IF resp.RateLimitRemaining0
         THEN [body |-> Nil,
               err |-> APIError(resp.StatusCode,
                   "GitHub API rate limit exceeded. Try again later or set GITHUB_TOKEN.")]
         ELSE [body |-> Nil,
               err |-> APIError(resp.StatusCode,
                   "GitHub authentication failed. Check your GITHUB_TOKEN.")]
    ELSE IF resp.StatusCode < 200 \/ resp.StatusCode >= 300
    THEN [body |-> Nil, err |-> APIError(resp.StatusCode, extractAPIMessage(resp.body))]
    ELSE [body |-> resp.body, err |-> Nil]

doRequest(cancelled, resp) == doRequestWithAccept(cancelled, resp)

\* json.Unmarshal fails on a body that is not JSON of the expected shape
Unmarshal(body, what) ==
    IF body.type = "garbage"
    THEN [val |-> Nil, err |-> Errorf("failed to parse " \o what \o " response: invalid character")]
    ELSE [val |-> body, err |-> Nil]

IsNotFound(err) == err.type = "APIError" /\ err.StatusCode = StatusNotFound

-----------------------------------------------------------------------------
(* Values the host can return *)

\* config.Channel values; names are byte tuples ("a", "ab", "b")
ChannelPool ==
    { [Name |-> <<97>>, Branch |-> <<97>>],
      [Name |-> <<97, 98>>, Branch |-> <<120>>],
      [Name |-> <<98>>, Branch |-> <<98>>] }

\* channel lists without repeated names, as config.ParseChannels builds them
ChannelLists ==
    { s \in UNION { [1..k -> ChannelPool] : k \in 0..MaxChannels } :
        \A i, j \in DOMAIN s : i # j => s[i].Name # s[j].Name }

\* the identifiers asked for
PRNumbers == { 100, 999999 }

\* merge_commit_sha values: absent, 11 characters, 12 characters
CommitSHAs == { "", "abc123def45", "abc123def456" }

PullRequest(n, state, draft, merged, sha) ==
    [type |-> "json", Number |-> n, Title |-> "Test PR", State |-> state,
     Draft |-> draft, Merged |-> merged, MergeCommitSHA |-> sha, Login |-> "dev"]

\* a merged PR is closed and no draft; a draft is open
PullRequestBodies(n) ==
    { PullRequest(n, "open", TRUE, FALSE, sha) : sha \in CommitSHAs }
    \cup { PullRequest(n, "open", FALSE, FALSE, sha) : sha \in CommitSHAs }
    \cup { PullRequest(n, "closed", FALSE, FALSE, sha) : sha \in CommitSHAs }
    \cup { PullRequest(n, "closed", FALSE, TRUE, sha) : sha \in CommitSHAs }

HTTPFailures == { NetworkFail, RateLimited, AuthFailed, NotFound404, ServerError, Garbage200 }

PullRequestResponses(n) == { OK200(b) : b \in PullRequestBodies(n) } \cup HTTPFailures

Issue(n, title, state, marker) ==
    [type |-> "json", Number |-> n, Title |-> title, State |-> state,
     HTMLURL |-> "https://github.com/NixOS/nixpkgs/issues/" \o ToString(n),
     PullRequest |-> marker]

IssueBodies(n) ==
    { Issue(n, title, state, marker) :
        title \in {"", "Bug report"}, state \in {"open", "closed"}, marker \in BOOLEAN }

IssueResponses(n) == { OK200(b) : b \in IssueBodies(n) } \cup HTTPFailures

CompareResult(behind) == [type |-> "json", BehindBy |-> behind]

CompareResponses ==
    { OK200(CompareResult(k)) : k \in 0..MaxLag } \cup { RateLimited, NotFound404 }

-----------------------------------------------------------------------------
(* internal/core: pure parts *)

ChannelResult(name, branch, status, error) ==
    [Name |-> name, Branch |-> branch, Status |-> status, Error |-> error]

\* the zero value of a slot of make([]ChannelResult, n)
ZeroChannelResult == ChannelResult(<<>>, <<>>, "", "")

\* the derivation that looks at the draft flag first
determinePRState_DraftFirst(p) ==
    IF p.Draft THEN PRStateDraft
    ELSE IF p.Merged THEN PRStateMerged
    ELSE IF p.State = "open" THEN PRStateOpen
    ELSE PRStateClosed

determinePRState(p) ==
    IF p.Merged THEN PRStateMerged
    ELSE IF p.Draft THEN PRStateDraft
    ELSE IF p.State = "open" THEN PRStateOpen
    ELSE PRStateClosed

CompareCommitWithBranch(cancelled, resp) ==
    LET r == doRequest(cancelled, resp) IN
    IF r.err # Nil THEN [result |-> Nil, err |-> r.err]
    ELSE LET u == Unmarshal(r.body, "compare") IN
         IF u.err # Nil THEN [result |-> Nil, err |-> u.err]
         ELSE [result |-> u.val, err |-> Nil]

\* the BehindBy test inverted
checkChannel_Inverted(cancelled, ch, resp) ==
    LET c == CompareCommitWithBranch(cancelled, resp) IN
    IF c.err # Nil
    THEN ChannelResult(ch.Name, ch.Branch, StatusUnknown, ErrorString(c.err))
    ELSE IF c.result.BehindBy # 0
    THEN ChannelResult(ch.Name, ch.Branch, StatusPresent, "")
    ELSE ChannelResult(ch.Name, ch.Branch, StatusNotPresent, "")

\* a check that reports a failed comparison as NotPresent with the error text
checkChannel_ErrorOnNotPresent(cancelled, ch, resp) ==
    LET c == CompareCommitWithBranch(cancelled, resp) IN
    IF c.err # Nil
    THEN ChannelResult(ch.Name, ch.Branch, StatusNotPresent, ErrorString(c.err))
    ELSE IF c.result.BehindBy = 0
    THEN ChannelResult(ch.Name, ch.Branch, StatusPresent, "")
    ELSE ChannelResult(ch.Name, ch.Branch, StatusNotPresent, "")

checkChannel(cancelled, ch, resp) ==
    LET c == CompareCommitWithBranch(cancelled, resp) IN
    IF c.err # Nil
    THEN ChannelResult(ch.Name, ch.Branch, StatusUnknown, ErrorString(c.err))
    ELSE IF c.result.BehindBy = 0
    THEN ChannelResult(ch.Name, ch.Branch, StatusPresent, "")
    ELSE ChannelResult(ch.Name, ch.Branch, StatusNotPresent, "")

\* a less function that orders the present entries by name too
less_PresentByName(s, i, j) ==
    LET isPresentI == s[i].Status = StatusPresent
        isPresentJ == s[j].Status = StatusPresent
    IN  IF isPresentI # isPresentJ THEN isPresentI
        ELSE StringLess(s[i].Name, s[j].Name)

\* the less function handed to sort.SliceStable
less(s, i, j) ==
    LET isPresentI == s[i].Status = StatusPresent
        isPresentJ == s[j].Status = StatusPresent
    IN  IF isPresentI # isPresentJ THEN isPresentI
        ELSE IF ~isPresentI THEN StringLess(s[i].Name, s[j].Name)
        ELSE FALSE

\* a swap that loses the element it moves over
Swap_Overwrites(s, i, j) == [s EXCEPT ![i] = s[j]]

Swap(s, i, j) == [s EXCEPT ![i] = s[j], ![j] = s[i]]

\* inner loop of the insertion sort: for j := i; j > a && less(j, j-1); j--
RECURSIVE InsertDown(_, _)
InsertDown(s, j) ==
    IF j > 1 /\ less(s, j, j - 1) THEN InsertDown(Swap(s, j, j - 1), j - 1) ELSE s

RECURSIVE InsertionSortFrom(_, _)
InsertionSortFrom(s, i) ==
    IF i > Len(s) THEN s ELSE InsertionSortFrom(InsertDown(s, i), i + 1)

\* sort.SliceStable is an insertion sort for slices of up to 20 elements
SortChannelResults(s) == InsertionSortFrom(s, 2)

PRStatus(p, chans) ==
    [Number |-> p.Number, Title |-> p.Title, Author |-> p.Login,
     State |-> determinePRState(p), MergeCommit |-> p.MergeCommitSHA,
     Channels |-> chans]

\* the unmerged path filled with the initial status of checkChannel
NotPresentResults_Unknown(chs) ==
    [i \in 1..Len(chs) |-> ChannelResult(chs[i].Name, chs[i].Branch, StatusUnknown, "")]

\* the results of the unmerged path
NotPresentResults(chs) ==
    [i \in 1..Len(chs) |-> ChannelResult(chs[i].Name, chs[i].Branch, StatusNotPresent, "")]

-----------------------------------------------------------------------------
(* internal/github: GetIssue and the timeline walk of GetRelatedPRs *)

GetIssue(cancelled, resp) ==
    LET r == doRequest(cancelled, resp) IN
    IF r.err # Nil THEN [issue |-> Nil, err |-> r.err]
    ELSE LET u == Unmarshal(r.body, "issue") IN
         IF u.err # Nil THEN [issue |-> Nil, err |-> u.err]
         ELSE [issue |-> u.val, err |-> Nil]

\* *string
Str(v) == [type |-> "str", val |-> v]

\* crossReferenceIssue; pull is nil or a crossReferencePR, repo is nil or a
\* crossReferenceRepository
CrossReferenceIssue(n, title, state, pull, repo) ==
    [Number |-> n, Title |-> title, State |-> state,
     HTMLURL |-> "https://github.com/NixOS/nixpkgs/pull/" \o ToString(n),
     PullRequest |-> pull, Repository |-> repo]

TimelineEvent(kind, source) == [Event |-> kind, Source |-> source]

CrossReferenced(is) == TimelineEvent("cross-referenced", [Issue |-> is])

RelatedPR(n, title, url, state) ==
    [Number |-> n, Title |-> title, URL |-> url, State |-> state]

\* the loop with the seen map consulted and marked before the filters
RECURSIVE ProcessEvents_MarksSkipped(_, _, _)
ProcessEvents_MarksSkipped(events, rel, sn) ==
    IF events = <<>> THEN [related |-> rel, seen |-> sn]
    ELSE
      LET event == Head(events)
          rest == Tail(events)
      IN
      IF event.Event # "cross-referenced" THEN ProcessEvents_MarksSkipped(rest, rel, sn)
      ELSE IF event.Source = Nil \/ event.Source.Issue = Nil
      THEN ProcessEvents_MarksSkipped(rest, rel, sn)
      ELSE
        LET is == event.Source.Issue IN
        IF is.Number \in sn THEN ProcessEvents_MarksSkipped(rest, rel, sn)
        ELSE IF is.PullRequest = Nil
        THEN ProcessEvents_MarksSkipped(rest, rel, sn \cup {is.Number})
        ELSE IF is.Repository # Nil /\ is.Repository.FullName # "NixOS/nixpkgs"
        THEN ProcessEvents_MarksSkipped(rest, rel, sn \cup {is.Number})
        ELSE
          LET state == IF is.PullRequest.MergedAt # Nil
                          /\ is.PullRequest.MergedAt.val # ""
                       THEN StateMerged ELSE is.State
          IN ProcessEvents_MarksSkipped(rest,
                 Append(rel, RelatedPR(is.Number, is.Title, is.HTMLURL, state)),
                 sn \cup {is.Number})

\* the loop without the seen map
RECURSIVE ProcessEvents_NoDedupe(_, _, _)
ProcessEvents_NoDedupe(events, rel, sn) ==
    IF events = <<>> THEN [related |-> rel, seen |-> sn]
    ELSE
      LET event == Head(events)
          rest == Tail(events)
      IN
      IF event.Event # "cross-referenced" THEN ProcessEvents_NoDedupe(rest, rel, sn)
      ELSE IF event.Source = Nil \/ event.Source.Issue = Nil
      THEN ProcessEvents_NoDedupe(rest, rel, sn)
      ELSE
        LET is == event.Source.Issue IN
        IF is.PullRequest = Nil THEN ProcessEvents_NoDedupe(rest, rel, sn)
        ELSE IF is.Repository # Nil /\ is.Repository.FullName # "NixOS/nixpkgs"
        THEN ProcessEvents_NoDedupe(rest, rel, sn)
        ELSE
          LET state == IF is.PullRequest.MergedAt # Nil
                          /\ is.PullRequest.MergedAt.val # ""
                       THEN StateMerged ELSE is.State
          IN ProcessEvents_NoDedupe(rest,
                 Append(rel, RelatedPR(is.Number, is.Title, is.HTMLURL, state)),
                 sn \cup {is.Number})

\* the loop that takes any merged_at, the empty one included, for a merge
RECURSIVE ProcessEvents_EmptyMergedAtIsMerged(_, _, _)
ProcessEvents_EmptyMergedAtIsMerged(events, rel, sn) ==
    IF events = <<>> THEN [related |-> rel, seen |-> sn]
    ELSE
      LET event == Head(events)
          rest == Tail(events)
      IN
      IF event.Event # "cross-referenced" THEN ProcessEvents_EmptyMergedAtIsMerged(rest, rel, sn)
      ELSE IF event.Source = Nil \/ event.Source.Issue = Nil
      THEN ProcessEvents_EmptyMergedAtIsMerged(rest, rel, sn)
      ELSE
        LET is == event.Source.Issue IN
        IF is.PullRequest = Nil THEN ProcessEvents_EmptyMergedAtIsMerged(rest, rel, sn)
        ELSE IF is.Repository # Nil /\ is.Repository.FullName # "NixOS/nixpkgs"
        THEN ProcessEvents_EmptyMergedAtIsMerged(rest, rel, sn)
        ELSE IF is.Number \in sn THEN ProcessEvents_EmptyMergedAtIsMerged(rest, rel, sn)
        ELSE
          LET state == IF is.PullRequest.MergedAt # Nil
                       THEN StateMerged ELSE is.State
          IN ProcessEvents_EmptyMergedAtIsMerged(rest,
                 Append(rel, RelatedPR(is.Number, is.Title, is.HTMLURL, state)),
                 sn \cup {is.Number})

\* the body of "for _, event := range events"
RECURSIVE ProcessEvents(_, _, _)
ProcessEvents(events, rel, sn) ==
    IF events = <<>> THEN [related |-> rel, seen |-> sn]
    ELSE
      LET event == Head(events)
          rest == Tail(events)
      IN
      IF event.Event # "cross-referenced" THEN ProcessEvents(rest, rel, sn)
      ELSE IF event.Source = Nil \/ event.Source.Issue = Nil
      THEN ProcessEvents(rest, rel, sn)
      ELSE
        LET is == event.Source.Issue IN
        IF is.PullRequest = Nil THEN ProcessEvents(rest, rel, sn)
        ELSE IF is.Repository # Nil /\ is.Repository.FullName # "NixOS/nixpkgs"
        THEN ProcessEvents(rest, rel, sn)
        ELSE IF is.Number \in sn THEN ProcessEvents(rest, rel, sn)
        ELSE
          LET state == IF is.PullRequest.MergedAt # Nil
                          /\ is.PullRequest.MergedAt.val # ""
                       THEN StateMerged ELSE is.State
          IN ProcessEvents(rest,
                 Append(rel, RelatedPR(is.Number, is.Title, is.HTMLURL, state)),
                 sn \cup {is.Number})

\* "if maxPages <= 0 { maxPages = DefaultTimelinePages }"
\* a loop bound that allows one page more
EffectiveMaxPages_OneMore(maxPages) ==
    IF maxPages <= 0 THEN DefaultTimelinePages + 1 ELSE maxPages + 1

EffectiveMaxPages(maxPages) == IF maxPages <= 0 THEN DefaultTimelinePages ELSE maxPages

Nixpkgs == [FullName |-> "NixOS/nixpkgs"]
OtherRepo == [FullName |-> "other/repo"]

\* timeline pages the host of an issue returns in the CheckPR runs
TimelineResponses ==
    { NetworkFail, Garbage200,
      OK200([type |-> "json", events |-> <<>>]),
      OK200([type |-> "json", events |->
          << CrossReferenced(CrossReferenceIssue(7, "Fix", "open", [MergedAt |-> Nil], Nixpkgs)),
             TimelineEvent("commented", Nil) >>]),
      OK200([type |-> "json", events |->
          << CrossReferenced(CrossReferenceIssue(7, "Fix", "closed",
                 [MergedAt |-> Str("2024-01-15T10:00:00Z")], Nixpkgs)),
             CrossReferenced(CrossReferenceIssue(8, "Fork", "open", [MergedAt |-> Nil], OtherRepo)),
             CrossReferenced(CrossReferenceIssue(9, "Done", "closed",
                 [MergedAt |-> Str("2024-01-15T10:00:00Z")], Nil)) >>]) }

-----------------------------------------------------------------------------
(* One CheckPR invocation *)

Chan == 1..Len(channels)

Terminal == {"Done", "Failed", "Crashed"}

\* the state before CheckPR is entered, without its arguments
Entry ==
    /\ timelinePages = DefaultTimelinePages
    /\ ctxCancelled = FALSE
    /\ pr = Nil
    /\ issue = Nil
    /\ page = 0
    /\ related = <<>>
    /\ seen = {}
    /\ hostCompare = <<>>
    /\ spawned = 0
    /\ task = [i \in 1..Len(channels) |-> "idle"]
    /\ results = <<>>
    /\ wg = 0
    /\ requests = <<>>
    /\ compareCalls = [i \in 1..Len(channels) |-> 0]
    /\ compareOut = [i \in 1..Len(channels) |-> Nil]
    /\ cancelledInFlight = FALSE
    /\ retStatus = Nil
    /\ retErr = Nil

Init ==
    /\ prNumber \in PRNumbers
    /\ channels \in ChannelLists
    /\ pc = "Start"
    /\ callArg = Nil
    /\ callRet = Nil
    /\ Entry

\* return nil, err
Fail(err) ==
    /\ pc' = "Failed"
    /\ retErr' = err
    /\ retStatus' = Nil

Request(call, number, pg, out) ==
    [call |-> call, number |-> number, page |-> pg, out |-> out]

\* GetPullRequest that wraps the error of the request
PullVerdict_WrapsError(r) ==
    IF r.err # Nil
    THEN IF IsNotFound(r.err)
         THEN [next |-> "Disambiguate", pr |-> Nil, err |-> Nil]
         ELSE [next |-> "Failed", pr |-> Nil,
               err |-> Errorf("fetching PR: " \o ErrorString(r.err))]
    ELSE LET u == Unmarshal(r.body, "PR") IN
         IF u.err # Nil
         THEN [next |-> "Failed", pr |-> Nil, err |-> u.err]
         ELSE [next |-> "IdentityResolved", pr |-> u.val, err |-> Nil]

\* GetPullRequest after doRequest returned r: the parsed PR, the error to
\* return, or the call of disambiguateNotFound
PullVerdict(r) ==
    IF r.err # Nil
    THEN IF IsNotFound(r.err)
         THEN [next |-> "Disambiguate", pr |-> Nil, err |-> Nil]
         ELSE [next |-> "Failed", pr |-> Nil, err |-> r.err]
    ELSE LET u == Unmarshal(r.body, "PR") IN
         IF u.err # Nil
         THEN [next |-> "Failed", pr |-> Nil, err |-> u.err]
         ELSE [next |-> "IdentityResolved", pr |-> u.val, err |-> Nil]

\* c.client.GetPullRequest(ctx, prNumber), up to the call of disambiguateNotFound
GetPullRequest ==
    /\ pc = "Start"
    /\ \E resp \in PullRequestResponses(prNumber) :
         LET r == doRequest(ctxCancelled, resp)
             v == PullVerdict(r)
         IN
         /\ requests' = Append(requests, Request("pulls", prNumber, 0, r))
         /\ pr' = v.pr
         /\ IF v.next = "Failed"
            THEN Fail(v.err)
            ELSE /\ pc' = v.next
                 /\ UNCHANGED <<retStatus, retErr>>
    /\ UNCHANGED <<prNumber, channels, timelinePages, ctxCancelled, issue, page,
                   related, seen, hostCompare, spawned, task, results, wg,
                   compareCalls, compareOut, cancelledInFlight, callArg, callRet>>

\* disambiguation that hands the 404 of the issue lookup on as it is
IssueVerdict_PassesNotFound(g, number) ==
    IF g.err = Nil
    THEN IF ~g.issue.PullRequest
         THEN [next |-> "Timeline", err |-> Nil]
         ELSE [next |-> "Failed",
               err |-> Errorf("PR #" \o ToString(number)
                   \o " exists but could not be fetched; check your GITHUB_TOKEN permissions")]
    ELSE [next |-> "Failed", err |-> g.err]

\* disambiguation that reports an issue record with marker as not found
IssueVerdict_MarkerIsNotFound(g, number) ==
    IF g.err = Nil
    THEN IF ~g.issue.PullRequest
         THEN [next |-> "Timeline", err |-> Nil]
         ELSE [next |-> "Failed", err |-> NotFoundError(number)]
    ELSE IF IsNotFound(g.err)
         THEN [next |-> "Failed", err |-> NotFoundError(number)]
         ELSE [next |-> "Failed", err |-> g.err]

\* disambiguation that walks the timeline whatever the marker says
IssueVerdict_TimelineDespiteMarker(g, number) ==
    IF g.err = Nil
    THEN [next |-> "Timeline", err |-> Nil]
    ELSE IF IsNotFound(g.err)
         THEN [next |-> "Failed", err |-> NotFoundError(number)]
         ELSE [next |-> "Failed", err |-> g.err]

\* disambiguateNotFound after GetIssue returned g: the error to return, or the
\* call of GetRelatedPRs
IssueVerdict(g, number) ==
    IF g.err = Nil
    THEN IF ~g.issue.PullRequest
         THEN [next |-> "Timeline", err |-> Nil]
         ELSE [next |-> "Failed",
               err |-> Errorf("PR #" \o ToString(number)
                   \o " exists but could not be fetched; check your GITHUB_TOKEN permissions")]
    ELSE IF IsNotFound(g.err)
         THEN [next |-> "Failed", err |-> NotFoundError(number)]
         ELSE [next |-> "Failed", err |-> g.err]

\* disambiguateNotFound, up to the call of GetRelatedPRs
disambiguateNotFound ==
    /\ pc = "Disambiguate"
    /\ \E resp \in IssueResponses(prNumber) :
         LET g == GetIssue(ctxCancelled, resp)
             v == IssueVerdict(g, prNumber)
         IN
         /\ requests' = Append(requests, Request("issues", prNumber, 0, g))
         /\ IF v.next = "Timeline"
            THEN /\ issue' = g.issue
                 /\ pc' = "Timeline"
                 /\ page' = 1
                 /\ related' = <<>>
                 /\ seen' = {}
                 /\ UNCHANGED <<retStatus, retErr>>
            ELSE /\ Fail(v.err)
                 /\ UNCHANGED <<issue, page, related, seen>>
    /\ UNCHANGED <<prNumber, channels, timelinePages, ctxCancelled, pr, hostCompare,
                   spawned, task, results, wg, compareCalls, compareOut,
                   cancelledInFlight, callArg, callRet>>

\* the iteration that throws the list away when the page fails
TimelinePage_DropsOnFailure(r, pg, maxPages, rel, sn) ==
    LET u == IF r.err # Nil THEN [val |-> Nil, err |-> r.err]
             ELSE Unmarshal(r.body, "timeline")
        stop == u.err # Nil \/ Len(u.val.events) = 0
        acc == IF u.err # Nil THEN [related |-> <<>>, seen |-> {}]
               ELSE IF stop THEN [related |-> rel, seen |-> sn]
               ELSE ProcessEvents(u.val.events, rel, sn)
    IN  [related |-> acc.related, seen |-> acc.seen,
         last |-> stop \/ pg + 1 > EffectiveMaxPages(maxPages)]

\* one iteration of "for page := 1; page <= maxPages; page++" after the fetch
\* returned r: the lists after the iteration, and whether the loop goes on
TimelinePage(r, pg, maxPages, rel, sn) ==
    LET u == IF r.err # Nil THEN [val |-> Nil, err |-> r.err]
             ELSE Unmarshal(r.body, "timeline")
        stop == u.err # Nil \/ Len(u.val.events) = 0
        acc == IF stop THEN [related |-> rel, seen |-> sn]
               ELSE ProcessEvents(u.val.events, rel, sn)
    IN  [related |-> acc.related, seen |-> acc.seen,
         last |-> stop \/ pg + 1 > EffectiveMaxPages(maxPages)]

\* one iteration of the page loop of GetRelatedPRs; when the loop ends,
\* disambiguateNotFound returns the NotPullRequestError
GetRelatedPRs(pool) ==
    /\ pc = "Timeline"
    /\ \E resp \in pool :
         LET r == doRequestWithAccept(ctxCancelled, resp)
             t == TimelinePage(r, page, timelinePages, related, seen)
         IN
         /\ requests' = Append(requests, Request("timeline", prNumber, page, r))
         /\ related' = t.related
         /\ seen' = t.seen
         /\ IF t.last
            THEN /\ Fail(NotPullRequestError(prNumber, issue.Title, issue.State,
                                             issue.HTMLURL, t.related))
                 /\ UNCHANGED page
            ELSE /\ page' = page + 1
                 /\ UNCHANGED <<pc, retStatus, retErr>>
    /\ UNCHANGED <<prNumber, channels, timelinePages, ctxCancelled, pr, issue,
                   hostCompare, spawned, task, results, wg, compareCalls, compareOut,
                   cancelledInFlight, callArg, callRet>>

\* "if !pr.Merged": every channel NotPresent, no host call
UnmergedShortCircuit ==
    /\ pc = "IdentityResolved"
    /\ ~pr.Merged
    /\ retStatus' = PRStatus(pr, SortChannelResults(NotPresentResults(channels)))
    /\ retErr' = Nil
    /\ pc' = "Done"
    /\ UNCHANGED <<prNumber, channels, timelinePages, ctxCancelled, pr, issue, page,
                   related, seen, hostCompare, spawned, task, results, wg, requests,
                   compareCalls, compareOut, cancelledInFlight, callArg, callRet>>

\* a merged PR without merge commit handled like an unmerged one
MergedCommitMissing_ReportsNotPresent ==
    /\ pc = "IdentityResolved"
    /\ pr.Merged
    /\ pr.MergeCommitSHA = ""
    /\ retStatus' = PRStatus(pr, SortChannelResults(NotPresentResults(channels)))
    /\ retErr' = Nil
    /\ pc' = "Done"
    /\ UNCHANGED <<prNumber, channels, timelinePages, ctxCancelled, pr, issue, page,
                   related, seen, hostCompare, spawned, task, results, wg, requests,
                   compareCalls, compareOut, cancelledInFlight, callArg, callRet>>

\* "if pr.MergeCommitSHA == """: return nil, fmt.Errorf(...)
MergedCommitMissing ==
    /\ pc = "IdentityResolved"
    /\ pr.Merged
    /\ pr.MergeCommitSHA = ""
    /\ Fail(Errorf("PR #" \o ToString(prNumber) \o " has no merge commit SHA"))
    /\ UNCHANGED <<prNumber, channels, timelinePages, ctxCancelled, pr, issue, page,
                   related, seen, hostCompare, spawned, task, results, wg, requests,
                   compareCalls, compareOut, cancelledInFlight, callArg, callRet>>

\* pr.MergeCommitSHA[:12] panics when the string is shorter than 12 bytes
SliceOutOfRange(sha) == Len(sha) < CommitLogLen

\* the argument of the "checking channels" log line is evaluated whatever the
\* log level: slice bounds out of range, CheckPR does not return
CommitSlicePanic ==
    /\ pc = "IdentityResolved"
    /\ pr.Merged
    /\ pr.MergeCommitSHA # ""
    /\ SliceOutOfRange(pr.MergeCommitSHA)
    /\ pc' = "Crashed"
    /\ UNCHANGED <<prNumber, channels, timelinePages, ctxCancelled, pr, issue, page,
                   related, seen, hostCompare, spawned, task, results, wg, requests,
                   compareCalls, compareOut, cancelledInFlight, callArg, callRet,
                   retStatus, retErr>>

\* results := make(...); wg.Add(len(channels)); the host's branches are what
\* they are when the fan-out starts
ChannelFanOut ==
    /\ pc = "IdentityResolved"
    /\ pr.Merged
    /\ pr.MergeCommitSHA # ""
    /\ ~SliceOutOfRange(pr.MergeCommitSHA)
    /\ results' = [i \in Chan |-> ZeroChannelResult]
    /\ wg' = Len(channels)
    /\ hostCompare' \in [Chan -> CompareResponses]
    /\ pc' = "ChannelFanOut"
    /\ UNCHANGED <<prNumber, channels, timelinePages, ctxCancelled, pr, issue, page,
                   related, seen, spawned, task, requests, compareCalls, compareOut,
                   cancelledInFlight, callArg, callRet, retStatus, retErr>>

\* one iteration of "for i, ch := range channels { go func() ... }"
Spawn ==
    /\ pc = "ChannelFanOut"
    /\ spawned < Len(channels)
    /\ spawned' = spawned + 1
    /\ task' = [task EXCEPT ![spawned + 1] = "ready"]
    /\ UNCHANGED <<prNumber, channels, timelinePages, ctxCancelled, pc, pr, issue,
                   page, related, seen, hostCompare, results, wg, requests,
                   compareCalls, compareOut, cancelledInFlight, callArg, callRet,
                   retStatus, retErr>>

\* goroutine i enters checkChannel and issues its compare call
TaskCall(i) ==
    /\ task[i] = "ready"
    /\ task' = [task EXCEPT ![i] = "calling"]
    /\ compareCalls' = [compareCalls EXCEPT ![i] = @ + 1]
    /\ UNCHANGED <<prNumber, channels, timelinePages, ctxCancelled, pc, pr, issue,
                   page, related, seen, hostCompare, spawned, results, wg, requests,
                   compareOut, cancelledInFlight, callArg, callRet, retStatus, retErr>>

\* a task that writes the slot of its neighbour
TaskReturn_WritesNeighbour(i) ==
    /\ task[i] = "calling"
    /\ compareOut' = [compareOut EXCEPT
                        ![i] = CompareCommitWithBranch(ctxCancelled, hostCompare[i])]
    /\ results' = [results EXCEPT
                     ![(i % Len(channels)) + 1] =
                         checkChannel(ctxCancelled, channels[i], hostCompare[i])]
    /\ task' = [task EXCEPT ![i] = "written"]
    /\ UNCHANGED <<prNumber, channels, timelinePages, ctxCancelled, pc, pr, issue,
                   page, related, seen, hostCompare, spawned, wg, requests,
                   compareCalls, cancelledInFlight, callArg, callRet, retStatus,
                   retErr>>

\* a task that writes the first slot nobody has written yet
TaskReturn_FirstFreeSlot(i) ==
    /\ task[i] = "calling"
    /\ compareOut' = [compareOut EXCEPT
                        ![i] = CompareCommitWithBranch(ctxCancelled, hostCompare[i])]
    /\ LET free == CHOOSE k \in Chan :
                      /\ results[k] = ZeroChannelResult
                      /\ \A j \in 1..(k - 1) : results[j] # ZeroChannelResult
       IN  results' = [results EXCEPT
                         ![free] = checkChannel(ctxCancelled, channels[i], hostCompare[i])]
    /\ task' = [task EXCEPT ![i] = "written"]
    /\ UNCHANGED <<prNumber, channels, timelinePages, ctxCancelled, pc, pr, issue,
                   page, related, seen, hostCompare, spawned, wg, requests,
                   compareCalls, cancelledInFlight, callArg, callRet, retStatus,
                   retErr>>

\* the compare call returns: results[i] = c.checkChannel(...)
TaskReturn(i) ==
    /\ task[i] = "calling"
    /\ compareOut' = [compareOut EXCEPT
                        ![i] = CompareCommitWithBranch(ctxCancelled, hostCompare[i])]
    /\ results' = [results EXCEPT
                     ![i] = checkChannel(ctxCancelled, channels[i], hostCompare[i])]
    /\ task' = [task EXCEPT ![i] = "written"]
    /\ UNCHANGED <<prNumber, channels, timelinePages, ctxCancelled, pc, pr, issue,
                   page, related, seen, hostCompare, spawned, wg, requests,
                   compareCalls, cancelledInFlight, callArg, callRet, retStatus,
                   retErr>>

\* defer wg.Done()
TaskDone(i) ==
    /\ task[i] = "written"
    /\ wg' = wg - 1
    /\ task' = [task EXCEPT ![i] = "done"]
    /\ UNCHANGED <<prNumber, channels, timelinePages, ctxCancelled, pc, pr, issue,
                   page, related, seen, hostCompare, spawned, results, requests,
                   compareCalls, compareOut, cancelledInFlight, callArg, callRet,
                   retStatus, retErr>>

\* a parent that goes on as soon as one task is done
Aggregate_FirstDone ==
    /\ pc = "ChannelFanOut"
    /\ spawned = Len(channels)
    /\ wg = 0 \/ wg < Len(channels)
    /\ retStatus' = PRStatus(pr, SortChannelResults(results))
    /\ retErr' = Nil
    /\ pc' = "Done"
    /\ UNCHANGED <<prNumber, channels, timelinePages, ctxCancelled, pr, issue, page,
                   related, seen, hostCompare, spawned, task, results, wg, requests,
                   compareCalls, compareOut, cancelledInFlight, callArg, callRet>>

\* wg.Wait() returns; sort and return the report
Aggregate ==
    /\ pc = "ChannelFanOut"
    /\ spawned = Len(channels)
    /\ wg = 0
    /\ retStatus' = PRStatus(pr, SortChannelResults(results))
    /\ retErr' = Nil
    /\ pc' = "Done"
    /\ UNCHANGED <<prNumber, channels, timelinePages, ctxCancelled, pr, issue, page,
                   related, seen, hostCompare, spawned, task, results, wg, requests,
                   compareCalls, compareOut, cancelledInFlight, callArg, callRet>>

\* the process receives SIGINT or SIGTERM: signal.NotifyContext cancels ctx
Cancel ==
    /\ pc \in {"Start", "Disambiguate", "Timeline", "IdentityResolved", "ChannelFanOut"}
    /\ ~ctxCancelled
    /\ ctxCancelled' = TRUE
    /\ cancelledInFlight' = (\E i \in Chan : task[i] = "calling")
    /\ UNCHANGED <<prNumber, channels, timelinePages, pc, pr, issue, page, related,
                   seen, hostCompare, spawned, task, results, wg, requests,
                   compareCalls, compareOut, callArg, callRet, retStatus, retErr>>

Next ==
    \/ GetPullRequest
    \/ disambiguateNotFound
    \/ GetRelatedPRs(TimelineResponses)
    \/ UnmergedShortCircuit
    \/ MergedCommitMissing
    \/ CommitSlicePanic
    \/ ChannelFanOut
    \/ Spawn
    \/ \E i \in Chan : TaskCall(i)
    \/ \E i \in Chan : TaskReturn(i)
    \/ \E i \in Chan : TaskDone(i)
    \/ Aggregate
    \/ Cancel

Spec == Init /\ [][Next]_vars

\* the steps of CheckPR itself: every host call returns and every runnable
\* goroutine is scheduled
Proceed ==
    \/ GetPullRequest
    \/ disambiguateNotFound
    \/ GetRelatedPRs(TimelineResponses)
    \/ UnmergedShortCircuit
    \/ MergedCommitMissing
    \/ CommitSlicePanic
    \/ ChannelFanOut
    \/ Spawn
    \/ \E i \in Chan : TaskCall(i)
    \/ \E i \in Chan : TaskReturn(i)
    \/ \E i \in Chan : TaskDone(i)
    \/ Aggregate

\* CheckPR under a scheduler that does not stop it while it can take a step
SpecLive == Init /\ [][Next]_vars /\ WF_vars(Proceed)

-----------------------------------------------------------------------------
(* SortChannelResults called on its own *)

MaxSortLen == 3

SortNames == { <<97>>, <<97, 98>>, <<98>> }

SortElements ==
    { ChannelResult(n, n, st, IF st = StatusUnknown THEN "GitHub API error" ELSE "") :
        n \in SortNames, st \in {StatusPresent, StatusNotPresent, StatusUnknown} }

SortInputs == UNION { [1..k -> SortElements] : k \in 0..MaxSortLen }

InitSort ==
    /\ prNumber = 0
    /\ channels = <<>>
    /\ pc = "SortCall"
    /\ callArg \in SortInputs
    /\ callRet = Nil
    /\ Entry

SortCall ==
    /\ pc = "SortCall"
    /\ callRet' = SortChannelResults(callArg)
    /\ pc' = "SortReturn"
    /\ UNCHANGED <<prNumber, channels, timelinePages, ctxCancelled, pr, issue, page,
                   related, seen, hostCompare, spawned, task, results, wg, requests,
                   compareCalls, compareOut, cancelledInFlight, callArg, retStatus,
                   retErr>>

NextSort == SortCall

SpecSort == InitSort /\ [][NextSort]_vars

-----------------------------------------------------------------------------
(* GetRelatedPRs on the timelines of an issue, for every page limit *)

MaxTimelinePages == 2

\* Client.TimelinePages: the --timeline-pages flag, which the older main hands
\* on unchecked (0 stands for an unset limit)
TimelinePageSettings == (-1)..MaxTimelinePages

MergedAtTime == "2024-01-15T12:00:00Z"

\* the events a timeline page is made of
TimelineEvents ==
    { CrossReferenced(CrossReferenceIssue(7, "Fix the bug", "open", [MergedAt |-> Nil], Nixpkgs)),
      CrossReferenced(CrossReferenceIssue(7, "Another fix", "closed",
          [MergedAt |-> Str(MergedAtTime)], Nixpkgs)),
      CrossReferenced(CrossReferenceIssue(8, "Closed PR", "closed", [MergedAt |-> Str("")], Nixpkgs)),
      CrossReferenced(CrossReferenceIssue(8, "External PR", "open", [MergedAt |-> Nil], OtherRepo)),
      CrossReferenced(CrossReferenceIssue(7, "Duplicate report", "open", Nil, Nixpkgs)),
      CrossReferenced(CrossReferenceIssue(9, "Backport", "closed",
          [MergedAt |-> Str(MergedAtTime)], Nil)),
      TimelineEvent("commented", Nil) }

\* the answers to one timeline page request: failures, an unparsable body,
\* and pages of zero, one or two events
TimelinePool ==
    { NetworkFail, RateLimited, Garbage200 }
    \cup { OK200([type |-> "json", events |-> <<>>]) }
    \cup { OK200([type |-> "json", events |-> <<e>>]) : e \in TimelineEvents }
    \cup { OK200([type |-> "json", events |-> <<e, f>>]) : e \in TimelineEvents, f \in TimelineEvents }

TrackedIssue == 12345

\* disambiguateNotFound at its call of GetRelatedPRs: the pull-request lookup
\* answered 404 and the issue lookup returned an issue without marker
InitTimeline ==
    /\ prNumber = TrackedIssue
    /\ channels = <<>>
    /\ timelinePages \in TimelinePageSettings
    /\ ctxCancelled = FALSE
    /\ pc = "Timeline"
    /\ pr = Nil
    /\ issue = Issue(TrackedIssue, "Bug report", "open", FALSE)
    /\ page = 1
    /\ related = <<>>
    /\ seen = {}
    /\ hostCompare = <<>>
    /\ spawned = 0
    /\ task = <<>>
    /\ results = <<>>
    /\ wg = 0
    /\ requests = << Request("pulls", TrackedIssue, 0, doRequest(FALSE, NotFound404)),
                     Request("issues", TrackedIssue, 0,
                         GetIssue(FALSE, OK200(Issue(TrackedIssue, "Bug report", "open", FALSE)))) >>
    /\ compareCalls = <<>>
    /\ compareOut = <<>>
    /\ cancelledInFlight = FALSE
    /\ callArg = Nil
    /\ callRet = Nil
    /\ retStatus = Nil
    /\ retErr = Nil

NextTimeline == GetRelatedPRs(TimelinePool)

SpecTimeline == InitTimeline /\ [][NextTimeline]_vars

-----------------------------------------------------------------------------
(* ParsePRInput called on its own.  An input string is a sequence of lexemes:
   single characters, and the literal URL prefixes of the two patterns and of
   their near misses. *)

MaxInputLen == 4

Space == " "
Digits == {"0", "1", "2"}
PullURLPrefix == "https://github.com/NixOS/nixpkgs/pull/"
IssueURLPrefix == "https://github.com/NixOS/nixpkgs/issues/"
OtherRepoURLPrefix == "https://github.com/other/repo/pull/"
NoSchemeURLPrefix == "github.com/NixOS/nixpkgs/pull/"

Lexemes ==
    {Space, "-", "+", "/", "x"} \cup Digits
    \cup {PullURLPrefix, IssueURLPrefix, OtherRepoURLPrefix, NoSchemeURLPrefix}

ParseInputs == UNION { [1..k -> Lexemes] : k \in 0..MaxInputLen }

DigitValue(d) == CASE d = "0" -> 0 [] d = "1" -> 1 [] d = "2" -> 2

\* strings.TrimSpace
RECURSIVE TrimLeft(_)
TrimLeft(s) == IF s # <<>> /\ Head(s) = Space THEN TrimLeft(Tail(s)) ELSE s

RECURSIVE TrimRight(_)
TrimRight(s) ==
    IF s # <<>> /\ s[Len(s)] = Space THEN TrimRight(SubSeq(s, 1, Len(s) - 1)) ELSE s

TrimSpace(s) == TrimRight(TrimLeft(s))

\* the digit loop of strconv.Atoi: n = n*10 + digit
RECURSIVE AtoiDigits(_, _)
AtoiDigits(s, n) ==
    IF s = <<>> THEN n ELSE AtoiDigits(Tail(s), n * 10 + DigitValue(Head(s)))

\* strconv.Atoi: an optional sign, then one or more digits
Atoi(s) ==
    LET signed == s # <<>> /\ s[1] \in {"+", "-"}
        body == IF signed THEN Tail(s) ELSE s
    IN  IF body = <<>> \/ \E i \in DOMAIN body : body[i] \notin Digits
        THEN [val |-> 0, err |-> Errorf("strconv.Atoi: invalid syntax")]
        ELSE [val |-> IF signed /\ s[1] = "-" THEN 0 - AtoiDigits(body, 0)
                      ELSE AtoiDigits(body, 0),
              err |-> Nil]

\* FindStringSubmatch of ^prefix(\d+)/?$ : whether it matched, and group 1
FindStringSubmatch(prefix, s) ==
    IF Len(s) >= 2 /\ s[1] = prefix
    THEN LET rest == Tail(s)
             group == IF rest[Len(rest)] = "/" THEN SubSeq(rest, 1, Len(rest) - 1)
                      ELSE rest
         IN  IF group # <<>> /\ \A i \in DOMAIN group : group[i] \in Digits
             THEN [matched |-> TRUE, group |-> group]
             ELSE [matched |-> FALSE, group |-> <<>>]
    ELSE [matched |-> FALSE, group |-> <<>>]

prURLRegex(s) == FindStringSubmatch(PullURLPrefix, s)

issueURLRegex(s) == FindStringSubmatch(IssueURLPrefix, s)

ParsePRInput(raw) ==
    LET input == TrimSpace(raw)
        a == Atoi(input)
    IN  IF a.err = Nil
        THEN IF a.val <= 0
             THEN [val |-> 0, err |-> Errorf("PR number must be a positive integer")]
             ELSE [val |-> a.val, err |-> Nil]
        ELSE IF prURLRegex(input).matched
        THEN [val |-> Atoi(prURLRegex(input).group).val, err |-> Nil]
        ELSE IF issueURLRegex(input).matched
        THEN [val |-> Atoi(issueURLRegex(input).group).val, err |-> Nil]
        ELSE [val |-> 0, err |-> Errorf(
            "invalid PR input: must be a number or https://github.com/NixOS/nixpkgs/pull/{number}")]

InitParse ==
    /\ prNumber = 0
    /\ channels = <<>>
    /\ pc = "ParseCall"
    /\ callArg \in ParseInputs
    /\ callRet = Nil
    /\ Entry

ParseCall ==
    /\ pc = "ParseCall"
    /\ callRet' = ParsePRInput(callArg)
    /\ pc' = "ParseReturn"
    /\ UNCHANGED <<prNumber, channels, timelinePages, ctxCancelled, pr, issue, page,
                   related, seen, hostCompare, spawned, task, results, wg, requests,
                   compareCalls, compareOut, cancelledInFlight, callArg, retStatus,
                   retErr>>

NextParse == ParseCall

SpecParse == InitParse /\ [][NextParse]_vars

-----------------------------------------------------------------------------
(* run of cmd/nprt: the command line, the check, the exit status *)

\* config.Channel of a default channel: the branch has the channel's name
Channel(name) == [Name |-> name, Branch |-> name]

\* master, staging-next, nixpkgs-unstable, nixos-unstable-small,
\* nixos-unstable, as byte tuples
defaultChannels ==
    << Channel(<<109, 97, 115, 116, 101, 114>>),
       Channel(<<115, 116, 97, 103, 105, 110, 103, 45, 110, 101, 120, 116>>),
       Channel(<<110, 105, 120, 112, 107, 103, 115, 45, 117, 110, 115, 116, 97, 98, 108, 101>>),
       Channel(<<110, 105, 120, 111, 115, 45, 117, 110, 115, 116, 97, 98, 108, 101, 45, 115, 109, 97, 108, 108>>),
       Channel(<<110, 105, 120, 111, 115, 45, 117, 110, 115, 116, 97, 98, 108, 101>>) >>

\* ParsePRInput's neighbour ParseChannels; the flag value is given by its
\* parts between the commas, already trimmed ("" is the empty tuple)
ParseChannels(parts) ==
    LET IsName(part) == part # <<>>
        requested == SelectSeq(parts, IsName)
        valid == { defaultChannels[i].Name : i \in DOMAIN defaultChannels }
        IsUnknown(name) == name \notin valid
        IsRequested(ch) == \E i \in DOMAIN requested : requested[i] = ch.Name
    IN  IF parts = <<>> \/ requested = <<>>
        THEN [channels |-> defaultChannels, err |-> Nil]
        ELSE IF SelectSeq(requested, IsUnknown) # <<>>
        THEN [channels |-> <<>>, err |-> Errorf("unknown channels")]
        ELSE [channels |-> SelectSeq(defaultChannels, IsRequested), err |-> Nil]

\* strings.TrimLeft(a, "-")
RECURSIVE TrimLeftDashes(_)
TrimLeftDashes(a) == IF a # <<>> /\ Head(a) = "-" THEN TrimLeftDashes(Tail(a)) ELSE a

\* cli.HasUnknownFlags: the first argument that looks like a flag and is not
\* a negative number, or the empty string
RECURSIVE HasUnknownFlags(_)
HasUnknownFlags(args) ==
    IF args = <<>> THEN <<>>
    ELSE LET a == Head(args) IN
         IF /\ a # <<>> /\ a[1] = "-"
            /\ a # <<"-">>
            /\ a # <<"-", "-">>
            /\ Atoi(TrimLeftDashes(a)).err # Nil
         THEN a
         ELSE HasUnknownFlags(Tail(args))

\* the command line as flag.Parse leaves it
CommandLine(flagError, showVersion, args, channelsFlag, jsonOutput) ==
    [flagError |-> flagError, showVersion |-> showVersion, args |-> args,
     channelsFlag |-> channelsFlag, jsonOutput |-> jsonOutput]

\* positional arguments: 100, the issue URL of 20 with a slash, the pull URL
\* of 0, and arguments that are no identifier
RunArgs ==
    { <<"1", "0", "0">>, <<IssueURLPrefix, "2", "0", "/">>, <<PullURLPrefix, "0">>,
      <<"0">>, <<"-", "1">>, <<"x">>, <<OtherRepoURLPrefix, "1">>, <<"-", "-", "x">> }

\* parts of a --channels value: master, nixos-unstable, an unknown name, ""
ChannelParts ==
    { defaultChannels[1].Name, defaultChannels[5].Name, <<102, 111, 111>>, <<>> }

\* --channels values that select at most MaxChannels channels or are refused
RunChannelFlags ==
    { f \in UNION { [1..k -> ChannelParts] : k \in 1..MaxChannels } :
        \/ ParseChannels(f).err # Nil
        \/ Len(ParseChannels(f).channels) <= MaxChannels }

CommandLines ==
    { CommandLine(FALSE, FALSE, <<a>>, f, j) :
        a \in RunArgs, f \in RunChannelFlags, j \in BOOLEAN }
    \cup { CommandLine(TRUE, FALSE, <<>>, <<>>, FALSE),
           CommandLine(FALSE, TRUE, <<>>, <<>>, FALSE),
           CommandLine(FALSE, FALSE, <<>>, <<>>, FALSE),
           CommandLine(FALSE, FALSE, << <<"1">>, <<"2">> >>, <<>>, FALSE) }

InitRun ==
    /\ prNumber = 0
    /\ channels = <<>>
    /\ pc = "RunStart"
    /\ callArg \in CommandLines
    /\ callRet = Nil
    /\ Entry

\* run before the check: the exit status it returns at once, or the call of
\* CheckPR
ArgumentsVerdict(cl) ==
    IF cl.flagError THEN [check |-> FALSE, code |-> 2]
    ELSE IF cl.showVersion THEN [check |-> FALSE, code |-> 0]
    ELSE IF HasUnknownFlags(cl.args) # <<>> THEN [check |-> FALSE, code |-> 2]
    ELSE IF Len(cl.args) # 1 THEN [check |-> FALSE, code |-> 2]
    ELSE IF ParsePRInput(cl.args[1]).err # Nil THEN [check |-> FALSE, code |-> 2]
    ELSE IF ParseChannels(cl.channelsFlag).err # Nil THEN [check |-> FALSE, code |-> 2]
    ELSE [check |-> TRUE, code |-> 0]

\* the exit status that treats a 403 like any other error
ErrorExit_ForbiddenIsGeneral(err) == 1

\* "if err != nil" after CheckPR: 3 for an APIError with status 403, 1 for
\* the NotPullRequestError and for every other error
ErrorExit(err) ==
    IF err.type = "APIError" /\ err.StatusCode = StatusForbidden THEN 3
    ELSE IF err.type = "NotPullRequestError" THEN 1
    ELSE 1

\* return code
Exit(code, rendered) ==
    /\ pc' = "Exited"
    /\ callRet' = [code |-> code, rendered |-> rendered]

\* run up to the call of CheckPR
RunParse ==
    /\ pc = "RunStart"
    /\ LET v == ArgumentsVerdict(callArg) IN
       IF v.check
       THEN LET chs == ParseChannels(callArg.channelsFlag).channels IN
            /\ prNumber' = ParsePRInput(callArg.args[1]).val
            /\ channels' = chs
            /\ task' = [i \in 1..Len(chs) |-> "idle"]
            /\ compareCalls' = [i \in 1..Len(chs) |-> 0]
            /\ compareOut' = [i \in 1..Len(chs) |-> Nil]
            /\ pc' = "Start"
            /\ UNCHANGED callRet
       ELSE /\ Exit(v.code, FALSE)
            /\ UNCHANGED <<prNumber, channels, task, compareCalls, compareOut>>
    /\ UNCHANGED <<timelinePages, ctxCancelled, pr, issue, page, related, seen,
                   hostCompare, spawned, results, wg, requests, cancelledInFlight,
                   callArg, retStatus, retErr>>

\* run after CheckPR returned: the error, or the report rendered as a table
\* (which cannot fail) or as JSON (whose encoder can)
RunExit ==
    /\ pc \in {"Done", "Failed"}
    /\ callArg # Nil
    /\ IF retErr # Nil
       THEN Exit(ErrorExit(retErr), FALSE)
       ELSE IF callArg.jsonOutput
            THEN \E encodeFails \in BOOLEAN :
                    IF encodeFails THEN Exit(1, FALSE) ELSE Exit(0, TRUE)
            ELSE Exit(0, TRUE)
    /\ UNCHANGED <<prNumber, channels, timelinePages, ctxCancelled, pr, issue, page,
                   related, seen, hostCompare, spawned, task, results, wg, requests,
                   compareCalls, compareOut, cancelledInFlight, callArg, retStatus,
                   retErr>>

NextRun ==
    \/ RunParse
    \/ Next
    \/ RunExit

SpecRun == InitRun /\ [][NextRun]_vars

-----------------------------------------------------------------------------
(* determinePRState called on its own, on every combination of raw fields *)

\* raw PR records: any state string the decoder can leave, any flags
RawPullRequests ==
    { PullRequest(n, state, draft, merged, sha) :
        n \in PRNumbers, state \in {"open", "closed", ""},
        draft \in BOOLEAN, merged \in BOOLEAN, sha \in CommitSHAs }

InitState ==
    /\ prNumber = 0
    /\ channels = <<>>
    /\ pc = "StateCall"
    /\ callArg \in RawPullRequests
    /\ callRet = Nil
    /\ Entry

StateCall ==
    /\ pc = "StateCall"
    /\ callRet' = determinePRState(callArg)
    /\ pc' = "StateReturn"
    /\ UNCHANGED <<prNumber, channels, timelinePages, ctxCancelled, pr, issue, page,
                   related, seen, hostCompare, spawned, task, results, wg, requests,
                   compareCalls, compareOut, cancelledInFlight, callArg, retStatus,
                   retErr>>

NextState == StateCall

SpecState == InitState /\ [][NextState]_vars

-----------------------------------------------------------------------------
(* Properties *)

Returned == pc \in Terminal

MergedWithCommit == pr # Nil /\ pr.Merged /\ pr.MergeCommitSHA # ""

\* the entries of a report that carry the name and branch of channel i
EntriesOf(i) ==
    { j \in DOMAIN retStatus.Channels :
        /\ retStatus.Channels[j].Name = channels[i].Name
        /\ retStatus.Channels[j].Branch = channels[i].Branch }

StatusOfLag(behind) == IF behind = 0 THEN StatusPresent ELSE StatusNotPresent

\* C1: for a merged PR with a non-empty merge commit CheckPR returns a report
\* and nil error, in which exactly the channels whose compare call failed are
\* Unknown with a non-empty error, and every other channel has the status of
\* its own comparison result.
C1_FailedComparisonsBecomeUnknown ==
    (Returned /\ MergedWithCommit) =>
        /\ retErr = Nil
        /\ retStatus # Nil
        /\ \A i \in Chan :
             /\ EntriesOf(i) # {}
             /\ \A j \in EntriesOf(i) :
                  LET e == retStatus.Channels[j] IN
                  IF compareOut[i].err # Nil
                  THEN e.Status = StatusUnknown /\ e.Error # ""
                  ELSE /\ e.Status = StatusOfLag(compareOut[i].result.BehindBy)
                       /\ e.Error = ""

\* C2: a returned report holds exactly one ChannelResult per requested
\* channel, with its name and branch, none missing, duplicated or invented.
C2_OneResultPerChannel ==
    retStatus # Nil =>
        /\ Len(retStatus.Channels) = Len(channels)
        /\ \A i \in Chan : Cardinality(EntriesOf(i)) = 1
        /\ \A j \in DOMAIN retStatus.Channels : \E i \in Chan : j \in EntriesOf(i)

C2_Witness ==
    /\ pc = "Done"
    /\ pr.Merged
    /\ Len(channels) = 2
    /\ \E i, k \in Chan : results[i].Status = StatusUnknown
                          /\ results[k].Status = StatusPresent
    /\ retStatus.Channels # results

\* C3: when the cancellation fires while compare calls are in flight, CheckPR
\* returns an error and no report.
C3_CancelledCheckFails ==
    (Returned /\ cancelledInFlight) => (retErr # Nil /\ retStatus = Nil)

\* C4: for an unmerged PR CheckPR returns nil error and a report in which
\* every requested channel is NotPresent.
C4_UnmergedAllNotPresent ==
    (Returned /\ pr # Nil /\ ~pr.Merged) =>
        /\ retErr = Nil
        /\ retStatus # Nil
        /\ Len(retStatus.Channels) = Len(channels)
        /\ \A j \in DOMAIN retStatus.Channels :
             retStatus.Channels[j].Status = StatusNotPresent

C4_Witness ==
    /\ pc = "Done"
    /\ ~pr.Merged
    /\ pr.State = "closed"
    /\ Len(channels) = 2
    /\ retStatus.Channels[1].Status = StatusNotPresent

\* C5: one CheckPR invocation issues exactly one compare call per channel
\* when the PR is merged with a non-empty merge commit and none otherwise; no
\* compare call is repeated.
C5_OneComparePerChannel ==
    /\ \A i \in Chan : compareCalls[i] <= 1
    /\ Returned =>
         \A i \in Chan : compareCalls[i] = (IF MergedWithCommit THEN 1 ELSE 0)

\* C6: a channel whose compare call succeeded is Present iff BehindBy is
\* zero, and NotPresent for any positive BehindBy.
C6_PresentIffZeroLag ==
    \A i \in Chan :
        (compareOut[i] # Nil /\ compareOut[i].err = Nil) =>
            /\ pr.Merged
            /\ results[i].Status = StatusOfLag(compareOut[i].result.BehindBy)
            /\ (results[i].Status = StatusPresent) <=> (compareOut[i].result.BehindBy = 0)
            /\ retStatus # Nil =>
                 \A j \in EntriesOf(i) :
                    retStatus.Channels[j].Status
                        = StatusOfLag(compareOut[i].result.BehindBy)

C6_Witness ==
    /\ pc = "Done"
    /\ pr.Merged
    /\ \E i, k \in Chan :
         /\ compareOut[i].err = Nil /\ compareOut[i].result.BehindBy = 0
         /\ compareOut[k].err = Nil /\ compareOut[k].result.BehindBy > 0
         /\ \E j \in EntriesOf(k) : retStatus.Channels[j].Status = StatusNotPresent

\* byte-wise a <= b, written without recursion
LexLeq(a, b) ==
    \/ Len(a) <= Len(b) /\ \A k \in 1..Len(a) : a[k] = b[k]
    \/ \E k \in 1..(IF Len(a) < Len(b) THEN Len(a) ELSE Len(b)) :
         /\ a[k] < b[k]
         /\ \A m \in 1..(k - 1) : a[m] = b[m]

IsPresent(e) == e.Status = StatusPresent

\* how often the element e occurs in the sequence s
Occurrences(s, e) == Cardinality({ k \in DOMAIN s : s[k] = e })

\* C7: SortChannelResults puts all Present entries before all others, keeps
\* the Present entries in input order and the others ascending by name, and
\* keeps every entry.
C7_SortRule ==
    pc = "SortReturn" =>
        /\ Len(callRet) = Len(callArg)
        /\ \A e \in SortElements : Occurrences(callRet, e) = Occurrences(callArg, e)
        /\ \A a, b \in DOMAIN callRet :
             (a < b /\ IsPresent(callRet[b])) => IsPresent(callRet[a])
        /\ SelectSeq(callRet, IsPresent) = SelectSeq(callArg, IsPresent)
        /\ \A a, b \in DOMAIN callRet :
             (a < b /\ ~IsPresent(callRet[a]) /\ ~IsPresent(callRet[b]))
                 => LexLeq(callRet[a].Name, callRet[b].Name)

C7_Witness ==
    /\ pc = "SortReturn"
    /\ Len(callArg) = 3
    /\ callArg[1].Status = StatusUnknown /\ callArg[1].Name = <<98>>
    /\ callArg[2].Status = StatusPresent /\ callArg[2].Name = <<98>>
    /\ callArg[3].Status = StatusPresent /\ callArg[3].Name = <<97>>
    /\ callRet = <<callArg[2], callArg[3], callArg[1]>>

\* C8: a merged PR with an empty merge commit makes CheckPR return an error
\* and no report, and no compare call is made for any commit.
C8_MergedCommitMissingFails ==
    (Returned /\ pr # Nil /\ pr.Merged /\ pr.MergeCommitSHA = "") =>
        /\ retErr # Nil
        /\ retStatus = Nil
        /\ \A i \in Chan : compareCalls[i] = 0

C8_Witness ==
    /\ pc = "Failed"
    /\ pr # Nil
    /\ pr.Merged
    /\ pr.MergeCommitSHA = ""
    /\ Len(channels) = 2
    /\ retErr = Errorf("PR #" \o ToString(prNumber) \o " has no merge commit SHA")

\* the pull-request lookup returned not-found
PullNotFound ==
    /\ Len(requests) >= 1
    /\ requests[1].call = "pulls"
    /\ IsNotFound(requests[1].out.err)

\* ... and the issue lookup returned an issue without pull-request marker
IssueWithoutMarker ==
    /\ PullNotFound
    /\ Len(requests) >= 2
    /\ requests[2].call = "issues"
    /\ requests[2].out.err = Nil
    /\ ~requests[2].out.issue.PullRequest

\* the fetch or the parse of the timeline request k failed
TimelineFailedAt(k) ==
    /\ requests[k].call = "timeline"
    /\ \/ requests[k].out.err # Nil
       \/ requests[k].out.body.type = "garbage"

\* the result is the issue mismatch with the fields of the issue record
IssueMismatchReturned ==
    /\ retStatus = Nil
    /\ retErr.type = "NotPullRequestError"
    /\ retErr.Number = prNumber
    /\ retErr.Number = requests[2].out.issue.Number
    /\ retErr.Title = requests[2].out.issue.Title
    /\ retErr.State = requests[2].out.issue.State
    /\ retErr.URL = requests[2].out.issue.HTMLURL

\* the numbers of the cross-referenced issues on the pages fetched before
\* request k
NumbersBefore(k) ==
    { requests[m].out.body.events[x].Source.Issue.Number :
        <<m, x>> \in { y \in (3..(k - 1)) \X (1..3) :
            /\ requests[y[1]].out.err = Nil
            /\ requests[y[1]].out.body.type = "json"
            /\ y[2] <= Len(requests[y[1]].out.body.events)
            /\ requests[y[1]].out.body.events[y[2]].Event = "cross-referenced" } }

C10_NotFoundTwice ==
    (/\ Returned
     /\ PullNotFound
     /\ Len(requests) >= 2
     /\ requests[2].call = "issues"
     /\ IsNotFound(requests[2].out.err)) =>
        /\ retErr = NotFoundError(prNumber)
        /\ retStatus = Nil
        /\ \A k \in DOMAIN requests : requests[k].call # "timeline"

C10_Witness ==
    /\ pc = "Failed"
    /\ prNumber = 999999
    /\ Len(requests) = 2
    /\ IsNotFound(requests[2].out.err)
    /\ retErr.type = "NotFoundError"
    /\ retErr.Number = 999999

\* ... and the issue lookup returned a record with pull-request marker
IssueWithMarker ==
    /\ PullNotFound
    /\ Len(requests) >= 2
    /\ requests[2].call = "issues"
    /\ requests[2].out.err = Nil
    /\ requests[2].out.issue.PullRequest

CallsOf(call) == { k \in DOMAIN requests : requests[k].call = call }

\* C11: not-found from the pull-request lookup, then an issue record with
\* pull-request marker, gives the error that points at the token permissions
\* (neither NotFoundError nor NotPullRequestError), and each of the two
\* lookups was issued once, with no timeline request.
C11_InconsistentHostIsPermissionError ==
    (Returned /\ IssueWithMarker) =>
        /\ retStatus = Nil
        /\ retErr.type \notin {"NotFoundError", "NotPullRequestError", "APIError"}
        /\ retErr = Errorf("PR #" \o ToString(prNumber)
               \o " exists but could not be fetched; check your GITHUB_TOKEN permissions")
        /\ Cardinality(CallsOf("pulls")) = 1
        /\ Cardinality(CallsOf("issues")) = 1
        /\ Len(requests) = 2

C11_Witness ==
    /\ pc = "Failed"
    /\ IssueWithMarker
    /\ prNumber = 100
    /\ ErrorString(retErr) =
         "PR #100 exists but could not be fetched; check your GITHUB_TOKEN permissions"

\* the lookup logged as request k returned an error other than not-found
OtherErrorAt(k) ==
    /\ Len(requests) >= k
    /\ requests[k].out.err # Nil
    /\ ~IsNotFound(requests[k].out.err)

\* C12: an error other than not-found from the pull-request lookup, or from
\* the issue lookup of the disambiguation, is the error CheckPR returns, the
\* same value (class, status code, message), and it ends the run.
C12_OtherErrorsPropagateUnchanged ==
    /\ (OtherErrorAt(1) /\ requests[1].call = "pulls") =>
          /\ pc = "Failed"
          /\ retStatus = Nil
          /\ retErr = requests[1].out.err
          /\ Len(requests) = 1
    /\ (PullNotFound /\ OtherErrorAt(2) /\ requests[2].call = "issues") =>
          /\ pc = "Failed"
          /\ retStatus = Nil
          /\ retErr = requests[2].out.err
          /\ retErr.type \notin {"NotFoundError", "NotPullRequestError"}
          /\ Len(requests) = 2

C12_Witness ==
    /\ pc = "Failed"
    /\ PullNotFound
    /\ OtherErrorAt(2)
    /\ requests[2].call = "issues"
    /\ retErr = APIError(StatusForbidden,
           "GitHub API rate limit exceeded. Try again later or set GITHUB_TOKEN.")

\* C13: the log of host calls is ordered: the pull-request lookup comes first
\* and once; the issue lookup comes second and only after a not-found of the
\* pull-request lookup; timeline pages come only after an issue record without
\* marker; a pull-request lookup that succeeded is the only call of the log.
C13_HostCallsOrdered ==
    /\ \A k \in DOMAIN requests :
         /\ requests[k].call = "pulls" => k = 1
         /\ requests[k].call = "issues" => (k = 2 /\ PullNotFound)
         /\ requests[k].call = "timeline" =>
              (k >= 3 /\ IssueWithoutMarker /\ requests[k].page = k - 2)
    /\ (Len(requests) >= 1 /\ requests[1].out.err = Nil) => Len(requests) = 1

C13_Witness ==
    /\ Len(requests) = 4
    /\ requests[3].call = "timeline"
    /\ requests[4].call = "timeline"
    /\ requests[4].page = 2
    /\ pc = "Timeline"

\* the events of the timeline page fetched by request k (none when the fetch
\* or the parse failed)
PageEvents(k) ==
    IF /\ requests[k].call = "timeline"
       /\ requests[k].out.err = Nil
       /\ requests[k].out.body.type = "json"
    THEN requests[k].out.body.events
    ELSE <<>>

\* the events of all pages fetched up to request k, in page order and then
\* in-page order
RECURSIVE FetchedUpTo(_)
FetchedUpTo(k) == IF k < 1 THEN <<>> ELSE FetchedUpTo(k - 1) \o PageEvents(k)

FetchedEvents == FetchedUpTo(Len(requests))

\* a cross-referenced event whose source carries the pull-request marker
IsCrossReferencedPR(e) ==
    /\ e.Event = "cross-referenced"
    /\ e.Source # Nil
    /\ e.Source.Issue # Nil
    /\ e.Source.Issue.PullRequest # Nil

FromTrackedRepository(e) == e.Source.Issue.Repository = [FullName |-> "NixOS/nixpkgs"]

NamesNoRepository(e) == e.Source.Issue.Repository = Nil

AcceptedEvent(e) ==
    IsCrossReferencedPR(e) /\ (FromTrackedRepository(e) \/ NamesNoRepository(e))

AcceptedEvents == SelectSeq(FetchedEvents, AcceptedEvent)

\* positions of the accepted events acc that are the first of their number
FirstOfNumber(acc) ==
    { k \in DOMAIN acc :
        \A j \in 1..(k - 1) : acc[j].Source.Issue.Number # acc[k].Source.Issue.Number }

\* the i-th of the positions first
KeptAt(first, i) == CHOOSE k \in first : Cardinality({ j \in first : j <= k }) = i

HasMergedAt(is) == is.PullRequest.MergedAt # Nil /\ is.PullRequest.MergedAt.val # ""

RelatedReturned == Returned /\ retErr.type = "NotPullRequestError"

\* C14: the returned list has no number twice; its i-th entry is the i-th
\* accepted cross-reference that is the first of its number (page order, then
\* in-page order), with that event's title and URL and the state derived
\* from that event.
C14_FirstCrossReferenceKept ==
    RelatedReturned =>
        LET list == retErr.RelatedPRs
            acc == AcceptedEvents
            first == FirstOfNumber(acc)
        IN
        /\ \A i, j \in DOMAIN list : i # j => list[i].Number # list[j].Number
        /\ Len(list) = Cardinality(first)
        /\ \A i \in DOMAIN list :
             LET is == acc[KeptAt(first, i)].Source.Issue IN
             /\ list[i].Number = is.Number
             /\ list[i].Title = is.Title
             /\ list[i].URL = is.HTMLURL
             /\ list[i].State = IF HasMergedAt(is) THEN "merged" ELSE is.State

\* page 1 names PR 8 and then PR 7 as open, page 2 names PR 7 again as merged
C14_Witness ==
    /\ RelatedReturned
    /\ Len(requests) = 4
    /\ Len(PageEvents(3)) = 2
    /\ Len(PageEvents(4)) = 1
    /\ PageEvents(4)[1].Source # Nil
    /\ PageEvents(4)[1].Source.Issue.Title = "Another fix"
    /\ Len(retErr.RelatedPRs) = 2
    /\ retErr.RelatedPRs[1].Number = 8
    /\ retErr.RelatedPRs[2].Title = "Fix the bug"
    /\ retErr.RelatedPRs[2].State = "open"

\* C15 as stated: every returned entry has the number and title of a fetched
\* event of kind cross-referenced whose source carries the pull-request marker
\* and whose repository is NixOS/nixpkgs.
C15_OnlyTrackedRepositoryPRs ==
    RelatedReturned =>
        LET fetched == FetchedEvents IN
        \A i \in DOMAIN retErr.RelatedPRs :
            \E k \in DOMAIN fetched :
                LET e == fetched[k] IN
                /\ IsCrossReferencedPR(e)
                /\ FromTrackedRepository(e)
                /\ e.Source.Issue.Number = retErr.RelatedPRs[i].Number
                /\ e.Source.Issue.Title = retErr.RelatedPRs[i].Title

\* What the loop does guarantee: every returned entry has the number and title
\* of a fetched event of kind cross-referenced whose source carries the
\* pull-request marker and whose repository is NixOS/nixpkgs or is not named.
C15_NoOtherRepositoryPRs ==
    RelatedReturned =>
        LET fetched == FetchedEvents IN
        \A i \in DOMAIN retErr.RelatedPRs :
            \E k \in DOMAIN fetched :
                LET e == fetched[k] IN
                /\ IsCrossReferencedPR(e)
                /\ FromTrackedRepository(e) \/ NamesNoRepository(e)
                /\ e.Source.Issue.Number = retErr.RelatedPRs[i].Number
                /\ e.Source.Issue.Title = retErr.RelatedPRs[i].Title

\* C16: when the fetch or the parse of a timeline page fails, the run still
\* ends in the issue mismatch, not in the page's error, and its list holds
\* the entries of the pages before: one per number accepted there, none when
\* the first page failed.
C16_PageFailureKeepsEarlierEntries ==
    (Returned /\ IssueWithoutMarker /\ TimelineFailedAt(Len(requests))) =>
        LET acc == AcceptedEvents
            first == FirstOfNumber(acc)
        IN
        /\ retErr.type = "NotPullRequestError"
        /\ retStatus = Nil
        /\ Len(retErr.RelatedPRs) = Cardinality(first)
        /\ \A k \in first :
             \E i \in DOMAIN retErr.RelatedPRs :
                 retErr.RelatedPRs[i].Number = acc[k].Source.Issue.Number
        /\ Len(requests) = 3 => retErr.RelatedPRs = <<>>

\* page 1 gives two entries, page 2 is rate limited
C16_Witness ==
    /\ Returned
    /\ IssueWithoutMarker
    /\ timelinePages = 0
    /\ Len(requests) = 4
    /\ requests[4].out.err = APIError(StatusForbidden,
           "GitHub API rate limit exceeded. Try again later or set GITHUB_TOKEN.")
    /\ Len(retErr.RelatedPRs) = 2

\* C17: the state of a returned entry is "merged" exactly when the event it
\* comes from carries a non-empty merged_at; without one it is the raw state
\* of that event.
C17_MergedIffMergedAt ==
    RelatedReturned =>
        LET acc == AcceptedEvents
            first == FirstOfNumber(acc)
        IN
        \A i \in DOMAIN retErr.RelatedPRs :
            i <= Cardinality(first) =>
                LET is == acc[KeptAt(first, i)].Source.Issue IN
                /\ retErr.RelatedPRs[i].State = "merged" <=> HasMergedAt(is)
                /\ ~HasMergedAt(is) => retErr.RelatedPRs[i].State = is.State

\* a closed PR with merged_at next to a closed PR with an empty merged_at
C17_Witness ==
    /\ RelatedReturned
    /\ Len(requests) = 3
    /\ Len(retErr.RelatedPRs) = 2
    /\ retErr.RelatedPRs[1].Title = "Another fix"
    /\ retErr.RelatedPRs[1].State = "merged"
    /\ retErr.RelatedPRs[2].Title = "Closed PR"
    /\ retErr.RelatedPRs[2].State = "closed"

\* one or more digits
IsNumeral(s) == s # <<>> /\ \A i \in DOMAIN s : s[i] \in Digits

\* the number a numeral denotes
RECURSIVE NumeralValue(_)
NumeralValue(s) ==
    IF s = <<>> THEN 0
    ELSE NumeralValue(SubSeq(s, 1, Len(s) - 1)) * 10 + DigitValue(s[Len(s)])

\* the input without the whitespace around it
WithoutSurroundingSpace(s) ==
    LET inked == { i \in DOMAIN s : s[i] # Space } IN
    IF inked = {} THEN <<>>
    ELSE SubSeq(s, CHOOSE i \in inked : \A j \in inked : i <= j,
                   CHOOSE i \in inked : \A j \in inked : i >= j)

\* the number n of which the input is an accepted form (its digits, or the
\* pull-request or issue URL of NixOS/nixpkgs for it, with or without a
\* trailing slash); 0 when the input is no such form
NumberWritten(s) ==
    LET t == WithoutSurroundingSpace(s) IN
    IF IsNumeral(t) THEN NumeralValue(t)
    ELSE IF Len(t) >= 2 /\ t[1] \in {PullURLPrefix, IssueURLPrefix}
    THEN LET d == IF t[Len(t)] = "/" THEN SubSeq(t, 2, Len(t) - 1) ELSE Tail(t) IN
         IF IsNumeral(d) THEN NumeralValue(d) ELSE 0
    ELSE 0

\* C18: ParsePRInput returns n, with nil error, for every accepted form of a
\* positive number n, and fails for every other input (0, negative numbers,
\* non-numeric text, URLs of another repository, URLs without https).
C18_AcceptedFormsAndNothingElse ==
    pc = "ParseReturn" =>
        LET n == NumberWritten(callArg) IN
        IF n > 0 THEN callRet = [val |-> n, err |-> Nil]
        ELSE callRet.err # Nil

\* C19: whenever ParsePRInput returns a nil error, the number it returns is
\* greater than zero.
C19_SuccessMeansPositive ==
    (pc = "ParseReturn" /\ callRet.err = Nil) => callRet.val > 0

\* What the three forms have in common apart from the zero of the URL forms:
\* a nil error comes with the number written in the input.
ParsedNumberIsNumberWritten ==
    (pc = "ParseReturn" /\ callRet.err = Nil /\ "+" \notin { callArg[i] : i \in DOMAIN callArg }) =>
        callRet.val = NumberWritten(callArg)

\* the check failed with an HTTP 403 host error
CheckFailedForbidden ==
    retErr # Nil /\ retErr.type = "APIError" /\ retErr.StatusCode = 403

\* the command line has a flag error, an unknown flag, or not one argument
BadArguments ==
    /\ ~callArg.showVersion
    /\ \/ callArg.flagError
       \/ Len(callArg.args) # 1
       \/ \E i \in DOMAIN callArg.args :
            /\ Len(callArg.args[i]) >= 2
            /\ callArg.args[i][1] = "-"
            /\ \E k \in DOMAIN callArg.args[i] : callArg.args[i][k] \notin Digits \cup {"-"}

\* ParsePRInput or ParseChannels refused the input
InvalidInput ==
    /\ ~callArg.showVersion
    /\ ~callArg.flagError
    /\ Len(callArg.args) = 1
    /\ \/ ParsePRInput(callArg.args[1]).err # Nil
       \/ ParseChannels(callArg.channelsFlag).err # Nil

C21_StatePrecedence ==
    pc = "StateReturn" =>
        /\ callArg.Merged => callRet = "merged"
        /\ (~callArg.Merged /\ callArg.Draft) => callRet = "draft"
        /\ (~callArg.Merged /\ ~callArg.Draft /\ callArg.State = "open") => callRet = "open"
        /\ (~callArg.Merged /\ ~callArg.Draft /\ callArg.State # "open") => callRet = "closed"

\* merged, draft and open at once
C21_Witness ==
    /\ pc = "StateReturn"
    /\ callArg.Merged
    /\ callArg.Draft
    /\ callArg.State = "open"
    /\ callRet = "merged"

\* C22: a report for a PR that is not merged has an empty merge commit,
\* whatever merge_commit_sha the host returned.
C22_UnmergedReportHasNoMergeCommit ==
    (pc = "Done" /\ ~pr.Merged) => retStatus.MergeCommit = ""

\* C23: a merged PR with a non-empty merge commit of any length reaches the
\* fan-out and gets its report; a merged PR fails only on the empty merge
\* commit; CheckPR never crashes.
C23_AnyCommitLengthIsChecked ==
    /\ pc # "Crashed"
    /\ (pr # Nil /\ pr.Merged /\ pc = "Failed") => pr.MergeCommitSHA = ""
    /\ (pr # Nil /\ pr.Merged /\ pr.MergeCommitSHA # "" /\ pc \in Terminal) =>
          /\ pc = "Done"
          /\ retErr = Nil
          /\ spawned = Len(channels)

\* the report of a merged PR was returned after the fan-out
FanOutReturned == pc = "Done" /\ pr.Merged

\* C24: when the report of the fan-out is sorted and returned, every channel
\* task has completed and written its slot, and every channel got its compare
\* call, whether or not the call of a sibling failed.
C24_JoinBarrier ==
    FanOutReturned =>
        /\ wg = 0
        /\ spawned = Len(channels)
        /\ \A i \in Chan :
             /\ task[i] = "done"
             /\ compareCalls[i] = 1
             /\ compareOut[i] # Nil
             /\ results[i] # ZeroChannelResult
             /\ results[i].Name = channels[i].Name

\* the call of channel 1 failed, channel 2 is present
C24_Witness ==
    /\ FanOutReturned
    /\ Len(channels) = 2
    /\ compareOut[1].err # Nil
    /\ results[1].Status = "unknown"
    /\ results[2].Status = "present"
    /\ task[2] = "done"

\* C25: in every step of the fan-out a result slot changes only when the task
\* of its own index returns from checkChannel, that slot was unwritten before,
\* no other slot changes in that step, and the parent takes the slots for the
\* report only when every task is done.
C25_EachTaskWritesItsOwnSlot ==
    [][pc = "ChannelFanOut" =>
          /\ \A i \in Chan :
               results'[i] # results[i] =>
                   /\ task[i] = "calling"
                   /\ task'[i] = "written"
                   /\ results[i] = ZeroChannelResult
                   /\ results'[i].Name = channels[i].Name
                   /\ \A j \in Chan \ {i} : results'[j] = results[j] /\ task'[j] = task[j]
          /\ \A i \in Chan :
               (task[i] = "calling" /\ task'[i] = "written") => results'[i] # results[i]
          /\ pc' = "Done" => \A i \in Chan : task[i] = "done"]_vars

\* task 2 has written slot 2 while task 1 is still in its call
C25_Witness ==
    /\ pc = "ChannelFanOut"
    /\ Len(channels) = 2
    /\ task[1] = "calling"
    /\ task[2] = "written"
    /\ results[1] = ZeroChannelResult
    /\ results[2].Name = channels[2].Name

\* the result of channel i as its compare call decided it
OutcomeResult(i) ==
    [Name |-> channels[i].Name, Branch |-> channels[i].Branch,
     Status |-> IF compareOut[i].err # Nil THEN "unknown"
                ELSE IF compareOut[i].result.BehindBy = 0 THEN "present"
                ELSE "not_present",
     Error |-> IF compareOut[i].err # Nil THEN ErrorString(compareOut[i].err) ELSE ""]

\* C26: the report of the fan-out is the PR record's fields with the sorted
\* list of the channels' outcomes taken in input order: nothing in it depends
\* on the order in which the tasks ran.
C26_ReportIndependentOfSchedule ==
    FanOutReturned =>
        /\ retErr = Nil
        /\ retStatus.Number = pr.Number
        /\ retStatus.Title = pr.Title
        /\ retStatus.Author = pr.Login
        /\ retStatus.State = "merged"
        /\ retStatus.MergeCommit = pr.MergeCommitSHA
        /\ retStatus.Channels = SortChannelResults([i \in Chan |-> OutcomeResult(i)])

\* two present channels given as "b", "a" are reported as "b", "a"
C26_Witness ==
    /\ FanOutReturned
    /\ Len(channels) = 2
    /\ channels[1].Name = <<98>>
    /\ channels[2].Name = <<97>>
    /\ retStatus.Channels[1] = [Name |-> <<98>>, Branch |-> <<98>>, Status |-> "present", Error |-> ""]
    /\ retStatus.Channels[2].Name = <<97>>
    /\ retStatus.Channels[2].Status = "present"

\* the number of timeline requests made up to and including request k
TimelineRank(k) == Cardinality({ j \in CallsOf("timeline") : j <= k })

\* the timeline request k ended the loop: fetch or parse failed, or no events
TimelineStopsAt(k) == TimelineFailedAt(k) \/ Len(PageEvents(k)) = 0

\* C27: the timeline requests of one GetRelatedPRs call ask for pages 1, 2, ...
\* in that order, each after the previous one returned; there are at most
\* maxPages of them (3 when maxPages <= 0); a request that failed or returned
\* an empty page is the last one; and the call returns only after such a
\* request or after the last allowed page.
C27_PagesInOrderUpToLimit ==
    LET T == CallsOf("timeline")
        limit == IF timelinePages <= 0 THEN 3 ELSE timelinePages
    IN  /\ Cardinality(T) <= limit
        /\ \A k \in T :
             /\ requests[k].page = TimelineRank(k)
             /\ requests[k].number = prNumber
             /\ TimelineStopsAt(k) => \A j \in T : j <= k
        /\ RelatedReturned =>
             \/ Cardinality(T) = limit
             \/ \E k \in T : TimelineStopsAt(k)
        /\ (pc = "Timeline" /\ T # {}) => page = Cardinality(T) + 1

\* a negative setting: three non-empty pages were fetched, then the call returned
C27_Witness ==
    /\ timelinePages = -1
    /\ RelatedReturned
    /\ Cardinality(CallsOf("timeline")) = 3
    /\ \A k \in CallsOf("timeline") : ~TimelineStopsAt(k)

\* C28: provided every host call returns, every CheckPR invocation eventually
\* returns (a report or an error) to its caller.
C28_CheckPREventuallyReturns == <>(pc \in {"Done", "Failed"})

\* every invocation comes to an end: it returns or it panics
C28_EventuallyReturnsOrCrashes == <>(pc \in Terminal)

\* the wait counter is the number of tasks that have not signalled completion,
\* so each task signals exactly once
C28_WaitCounterCountsOpenTasks ==
    pc = "ChannelFanOut" =>
        wg = Cardinality({ i \in Chan : task[i] # "done" })

\* C29: in every report, a channel entry that is Present or Unknown, or that
\* carries an error text, occurs only when the report's state is Merged and
\* its merge commit is not empty; and an entry carries an error text only if
\* its status is Unknown.
C29_ChannelVerdictsNeedMergedCommit ==
    pc = "Done" =>
        \A i \in DOMAIN retStatus.Channels :
            LET entry == retStatus.Channels[i] IN
            /\ (entry.Status \in {"present", "unknown"} \/ entry.Error # "") =>
                   /\ retStatus.State = "merged"
                   /\ retStatus.MergeCommit # ""
                   /\ pr.Merged
            /\ entry.Error # "" => entry.Status = "unknown"

\* a report with a present and an unknown channel, the unknown one with its error
C29_Witness ==
    /\ pc = "Done"
    /\ Len(retStatus.Channels) = 2
    /\ retStatus.Channels[1].Status = "present"
    /\ retStatus.Channels[1].Error = ""
    /\ retStatus.Channels[2].Status = "unknown"
    /\ retStatus.Channels[2].Error # ""
    /\ retStatus.State = "merged"
    /\ retStatus.MergeCommit = "abc123def456"

\* a cross-reference the loop passes over: a plain issue, or a PR of another
\* repository
SkippedCrossReference(e) ==
    /\ e.Event = "cross-referenced"
    /\ e.Source # Nil
    /\ e.Source.Issue # Nil
    /\ \/ e.Source.Issue.PullRequest = Nil
       \/ /\ e.Source.Issue.Repository # Nil
          /\ e.Source.Issue.Repository.FullName # "NixOS/nixpkgs"

\* C30: the numbers marked seen are exactly the numbers of the recorded
\* entries, each the number of a fetched event that passed the filters; and a
\* PR of the tracked repository whose number was carried before only by
\* skipped cross-references is recorded with its own title.
C30_SeenOnlyWhenAccepted ==
    LET fetched == FetchedEvents IN
    /\ seen = { related[i].Number : i \in DOMAIN related }
    /\ \A n \in seen :
         \E k \in DOMAIN fetched :
             /\ AcceptedEvent(fetched[k])
             /\ fetched[k].Source.Issue.Number = n
    /\ \A k \in DOMAIN fetched :
         (/\ IsCrossReferencedPR(fetched[k])
          /\ FromTrackedRepository(fetched[k])
          /\ \A j \in 1..(k - 1) :
                 (/\ fetched[j].Source # Nil
                  /\ fetched[j].Source.Issue.Number = fetched[k].Source.Issue.Number)
                     => SkippedCrossReference(fetched[j]))
         => \E i \in DOMAIN related :
                /\ related[i].Number = fetched[k].Source.Issue.Number
                /\ related[i].Title = fetched[k].Source.Issue.Title

\* PR 8 of another repository, then PR 8 of the tracked one: the second is listed
C30_Witness ==
    /\ RelatedReturned
    /\ Len(FetchedEvents) >= 2
    /\ SkippedCrossReference(FetchedEvents[1])
    /\ FetchedEvents[1].Source.Issue.Number = 8
    /\ FetchedEvents[1].Source.Issue.PullRequest # Nil
    /\ FetchedEvents[2].Source.Issue.Title = "Closed PR"
    /\ seen = {8}
    /\ Len(retErr.RelatedPRs) = 1
    /\ retErr.RelatedPRs[1].Title = "Closed PR"

====
